---- MODULE Spec2Model ----
(***************************************************************************)
(* Booking core of the vehicle rental API: createBooking, getBookings and  *)
(* updateBooking of src/modules/booking/booking.service.ts, with           *)
(* updateVehicle and deleteVehicle of src/modules/vehicle/vehicle.service  *)
(* .ts, run by concurrent requests against one PostgreSQL store (READ      *)
(* COMMITTED, row locks held to the end of the transaction or, outside a   *)
(* transaction, of the statement).                                         *)
(*                                                                         *)
(* Every step of a request is one awaited query of the source.  Writes of  *)
(* a transaction stay in tx[p] until COMMIT applies them to the committed  *)
(* tables `vehicles` and `bookings`; ROLLBACK discards them.  A query that *)
(* needs a row lock held by another transaction stays disabled until that  *)
(* transaction ends.  A query that the store rejects (connection lost,     *)
(* constraint violated, ...) is a Fault step: the await throws and the     *)
(* handler's catch block runs.  A COMMIT that is reported as failed has    *)
(* not been applied.                                                       *)
(***************************************************************************)
EXTENDS Integers, Sequences, FiniteSets, TLC

\* ---------------------------------------------------------------- bounds
MaxCalls == 2       \* requests started in one behaviour
MaxDay == 2         \* calendar days 1..MaxDay can be booked
MaxNow == 4         \* last instant of the clock, in half days

\* ---------------------------------------------------------------- domains
Procs == {1, 2}

Admin == [id |-> 1, role |-> "admin"]
Alice == [id |-> 2, role |-> "customer"]
Bob == [id |-> 3, role |-> "customer"]

\* req.user after requireAuth: an id and one of the two roles
Actors == {Admin, Alice, Bob}

NoActor == [id |-> 0, role |-> "none"]

\* vehicle ids; vehicle 3 has no row
VehicleIds == {1, 2, 3}

Days == 1..MaxDay

\* ids of the bookings table: the seeded row and one per request
BookingIds == 1..(MaxCalls + 1)

NoRow ==
  [id |-> 0, customer_id |-> 0, vehicle_id |-> 0, rent_start_date |-> 0,
   rent_end_date |-> 0, total_price |-> 0, status |-> "none"]

NoVehicle == [exists |-> FALSE, daily_rent_price |-> 0, availability_status |-> "none"]

\* The requests issued in one behaviour draw their arguments from env.
\*   customerIds: customer_id of a createBooking payload, 0 = not given (stored NULL)
\*   dates: 0 = missing, -1 = a string parseISO rejects, d >= 1 = calendar day d
\*   fleetIds: the :vehicleId of updateVehicle and deleteVehicle requests
\*   prices: daily_rent_price of an updateVehicle payload, in cents;
\*           0 = not given, -1 = a value the CHECK (daily_rent_price > 0) rejects
\*   avails: availability_status of an updateVehicle payload, "none" = not given
EnvDates ==
  [actors |-> {Admin}, customerIds |-> {2}, vehicleIds |-> {1},
   dates |-> {-1, 0} \cup Days, statuses |-> {"cancelled"},
   bookingIds |-> {1}, fleetIds |-> {}, prices |-> {}, avails |-> {}]

EnvVehicles ==
  [actors |-> {Admin}, customerIds |-> {2}, vehicleIds |-> VehicleIds,
   dates |-> {1}, statuses |-> {"returned"},
   bookingIds |-> {1, 2}, fleetIds |-> {}, prices |-> {}, avails |-> {}]

EnvActors ==
  [actors |-> Actors, customerIds |-> {0, 2}, vehicleIds |-> {1},
   dates |-> {1}, statuses |-> {"cancelled", "returned", "active"},
   bookingIds |-> {1, 2}, fleetIds |-> {}, prices |-> {}, avails |-> {}]

EnvFleet ==
  [actors |-> {Admin}, customerIds |-> {2}, vehicleIds |-> {1},
   dates |-> {1}, statuses |-> {"cancelled", "returned"},
   bookingIds |-> {1}, fleetIds |-> {1, 3}, prices |-> {-1, 0, 5000},
   avails |-> {"none", "maintenance"}]

Envs == {EnvDates, EnvVehicles, EnvActors, EnvFleet}

VARIABLES
  env,        \* the arguments requests are issued with
  vehicles,   \* committed table vehicles: id -> row
  bookings,   \* committed table bookings: set of rows
  nextId,     \* bookings_id_seq (SERIAL): not rolled back
  nextVehicleId, \* vehicles_id_seq (SERIAL)
  now,        \* wall clock, in half days: 2d is midnight of day d, 2d+1 its noon
  vlock,      \* row lock on vehicles(id): holder or 0
  block,      \* row lock on bookings(id): holder or 0
  pc,         \* position of each request
  call,       \* arguments, locals and outcome of each request
  tx,         \* uncommitted writes of each request's transaction
  calls,      \* requests received so far
  last        \* the request received last

vars == <<env, vehicles, bookings, nextId, nextVehicleId, now, vlock, block, pc, call, tx, calls, last>>

\* ---------------------------------------------------------------- records
NoTx == [insert |-> {}, bstatus |-> <<>>, vavail |-> <<>>]

\* conc: the requests in flight when this one was received
IdleCall ==
  [op |-> "none", actor |-> NoActor, customerId |-> 0, vehicle_id |-> 0,
   s |-> 0, e |-> 0, days |-> 0, daily |-> 0, bookingId |-> 0, status |-> "none",
   booking |-> NoRow, code |-> "none", ret |-> <<>>, conc |-> {}]

\* a request as it is received
NewCall(op, actor) ==
  [IdleCall EXCEPT !.op = op, !.actor = actor,
                   !.conc = { p \in Procs : pc[p] # "idle" }]

\* ---------------------------------------------------------------- schema
\* initDB: two vehicles registered, availability_status DEFAULT 'available'
VehiclesCreated ==
  [v \in VehicleIds |->
     IF v = 1 THEN [exists |-> TRUE, daily_rent_price |-> 10000,
                    availability_status |-> "available"]
     ELSE IF v = 2 THEN [exists |-> TRUE, daily_rent_price |-> 2550,
                         availability_status |-> "available"]
     ELSE NoVehicle]

\* the row left by createBooking({vehicle_id: 1, dates 2..2}, Alice)
SeedBooking ==
  [id |-> 1, customer_id |-> 2, vehicle_id |-> 1, rent_start_date |-> 2,
   rent_end_date |-> 2, total_price |-> 10000, status |-> "active"]

\* the same row after updateBooking(1, 'returned', admin)
SeedReturned == [SeedBooking EXCEPT !.status = "returned"]

\* The store is either fresh or holds Alice's booking of vehicle 1, active
\* or, where the fleet is managed, returned.
Init ==
  /\ env \in Envs
  /\ \/ /\ bookings = {}
        /\ vehicles = VehiclesCreated
        /\ nextId = 1
     \/ /\ bookings = {SeedBooking}
        /\ vehicles = [VehiclesCreated EXCEPT ![1].availability_status = "booked"]
        /\ nextId = 2
     \/ /\ env = EnvFleet
        /\ bookings = {SeedReturned}
        /\ vehicles = VehiclesCreated
        /\ nextId = 2
  /\ nextVehicleId = 3
  /\ now = 3
  /\ vlock = [v \in VehicleIds |-> 0]
  /\ block = [b \in BookingIds |-> 0]
  /\ pc = [p \in Procs |-> "idle"]
  /\ call = [p \in Procs |-> IdleCall]
  /\ tx = [p \in Procs |-> NoTx]
  /\ calls = 0
  /\ last = 0

\* ---------------------------------------------------------------- dates
\* a DATE value read from the store is the midnight instant of its day
toDate(d) == 2 * d

\* isValid(parseISO(x))
isValid(d) == d >= 1

\* the day count without the + 1
calcDaysExclusive(startIso, endIso) == endIso - startIso

\* calcDaysInclusive: differenceInCalendarDays(e, s) + 1
calcDaysInclusive(startIso, endIso) == (endIso - startIso) + 1

\* the overlap test with ranges that touch on one day let through
OverlapsTouchingAllowed(existingStart, existingEnd, newStart, newEnd) ==
  ~ (existingEnd <= newStart \/ existingStart >= newEnd)

\* the overlap test that only asks whether the new range starts inside the
\* existing one
OverlapsStartInside(existingStart, existingEnd, newStart, newEnd) ==
  existingStart <= newStart /\ newStart <= existingEnd

\* the WHERE clause of the overlap query:
\*   NOT (rent_end_date < $2 OR rent_start_date > $3)
Overlaps(existingStart, existingEnd, newStart, newEnd) ==
  ~ (existingEnd < newStart \/ existingStart > newEnd)

\* ---------------------------------------------------------------- store
ReleaseLocks(locks, p) == [k \in DOMAIN locks |-> IF locks[k] = p THEN 0 ELSE locks[k]]

\* the vehicle read without FOR UPDATE: nobody waits
LockFreeAlways(locks, k, p) == TRUE

\* a row lock can be taken when no other transaction holds it
LockFree(locks, k, p) == locks[k] \in {0, p}

\* ---------------------------------------------------------------- pool
\* the pool of part_004: as many connections as there are concurrent requests
PoolSize == Cardinality(Procs)

\* positions at which a request occupies a pooled connection: the client of
\* its transaction from pool.connect() to client.release() in the finally
\* block, or a statement on the pool that waits for row locks
ClientStates ==
  {"cb_lock", "cb_overlap", "cb_insert", "cb_update", "cb_commit",
   "ub_booking", "ub_vehicle", "ub_commit", "ub_reread", "dv_cascade"}

ClientsHeld(pcs) == Cardinality({ p \in Procs : pcs[p] \in ClientStates })

\* pool.connect() and pool.query() get a connection when one is idle and
\* wait otherwise
PoolHasFree(pcs) == ClientsHeld(pcs) < PoolSize

BookingRows(rows, id) == { r \in rows : r.id = id }

\* a COMMIT whose status write also sets the price of the booking to zero
CommitBookingsRefund(rows, t) ==
  LET updated == { IF t.bstatus # <<>> /\ r.id = t.bstatus[1]
                     THEN [r EXCEPT !.status = t.bstatus[2], !.total_price = 0] ELSE r : r \in rows }
  IN updated \cup t.insert

\* COMMIT: the pending writes of t become visible at once
CommitBookings(rows, t) ==
  LET updated == { IF t.bstatus # <<>> /\ r.id = t.bstatus[1]
                     THEN [r EXCEPT !.status = t.bstatus[2]] ELSE r : r \in rows }
  IN updated \cup t.insert

CommitVehicles(vs, t) ==
  IF t.vavail # <<>> /\ vs[t.vavail[1]].exists
    THEN [vs EXCEPT ![t.vavail[1]].availability_status = t.vavail[2]]
    ELSE vs

\* the end of a request: locks released, transaction forgotten, outcome kept
Finish(p, c) ==
  /\ pc' = [pc EXCEPT ![p] = "idle"]
  /\ call' = [call EXCEPT ![p] = c]
  /\ tx' = [tx EXCEPT ![p] = NoTx]
  /\ vlock' = ReleaseLocks(vlock, p)
  /\ block' = ReleaseLocks(block, p)

\* a catch block that ends the transaction with COMMIT
RollbackCommits(p, code) ==
  /\ Finish(p, [call[p] EXCEPT !.code = code])
  /\ bookings' = CommitBookings(bookings, tx[p])
  /\ vehicles' = CommitVehicles(vehicles, tx[p])
  /\ UNCHANGED <<env, nextVehicleId, nextId, now, calls, last>>

\* catch { ROLLBACK } of a handler: nothing of tx[p] reaches the tables
Rollback(p, code) ==
  /\ Finish(p, [call[p] EXCEPT !.code = code])
  /\ UNCHANGED <<env, nextVehicleId, vehicles, bookings, nextId, now, calls, last>>

\* one more request, handled by p
Receive(p) == calls' = calls + 1 /\ last' = p

\* a request that ends before its first query
Reject(p, c) ==
  /\ call' = [call EXCEPT ![p] = c]
  /\ UNCHANGED <<pc, tx, vlock, block>>

\* ---------------------------------------------------------------- createBooking
\* the checks without the two tests of the order of the dates
CbValidateRangeUnchecked(payload, actor) ==
  IF payload.vehicle_id = 0 \/ payload.rent_start_date = 0 \/ payload.rent_end_date = 0
    THEN "MissingFields"
  ELSE IF payload.customer_id = 0 /\ actor = NoActor
    THEN "Unauthorized"
  ELSE IF payload.customer_id # 0 /\ actor.role = "customer" /\ actor.id # payload.customer_id
    THEN "Forbidden"
  ELSE IF ~ isValid(payload.rent_start_date) \/ ~ isValid(payload.rent_end_date)
    THEN "InvalidDate"
  ELSE "pass"

\* lines 62-108: the checks made before a connection is taken
CbValidate(payload, actor) ==
  IF payload.vehicle_id = 0 \/ payload.rent_start_date = 0 \/ payload.rent_end_date = 0
    THEN "MissingFields"
  ELSE IF payload.customer_id = 0 /\ actor = NoActor
    THEN "Unauthorized"
  ELSE IF payload.customer_id # 0 /\ actor.role = "customer" /\ actor.id # payload.customer_id
    THEN "Forbidden"
  ELSE IF ~ isValid(payload.rent_start_date) \/ ~ isValid(payload.rent_end_date)
    THEN "InvalidDate"
  ELSE IF payload.rent_end_date < payload.rent_start_date
    THEN "InvalidRange"
  ELSE IF calcDaysInclusive(payload.rent_start_date, payload.rent_end_date) <= 0
    THEN "InvalidRange"
  ELSE "pass"

\* the customer id taken from the payload whoever the actor is
CbCustomerIdAsGiven(payload, actor) == payload.customer_id

\* lines 69-86: the customer id the booking is stored with (0 = NULL)
CbCustomerId(payload, actor) ==
  IF payload.customer_id = 0
    THEN IF actor.role = "customer" THEN actor.id ELSE 0
    ELSE payload.customer_id

CbCall(payload, actor) ==
  [NewCall("create", actor) EXCEPT
                   !.customerId = CbCustomerId(payload, actor),
                   !.vehicle_id = payload.vehicle_id,
                   !.s = payload.rent_start_date, !.e = payload.rent_end_date,
                   !.days = calcDaysInclusive(payload.rent_start_date, payload.rent_end_date)]

\* createBooking up to pool.connect() and BEGIN
CreateBookingStart(p) ==
  /\ pc[p] = "idle"
  /\ calls < MaxCalls
  /\ PoolHasFree(pc)
  /\ \E actor \in env.actors, cid \in env.customerIds, vid \in env.vehicleIds,
        sd \in env.dates, ed \in env.dates :
       LET payload == [customer_id |-> cid, vehicle_id |-> vid,
                       rent_start_date |-> sd, rent_end_date |-> ed]
           v == CbValidate(payload, actor)
       IN IF v = "pass"
            THEN /\ pc' = [pc EXCEPT ![p] = "cb_lock"]
                 /\ call' = [call EXCEPT ![p] = CbCall(payload, actor)]
                 /\ UNCHANGED <<tx, vlock, block>>
            ELSE Reject(p, [NewCall("create", actor) EXCEPT !.s = sd, !.e = ed, !.code = v])
  /\ Receive(p)
  /\ UNCHANGED <<env, nextVehicleId, vehicles, bookings, nextId, now>>

\* lines 115-124: SELECT ... FROM vehicles WHERE id = $1 FOR UPDATE
CbLockVehicle(p) ==
  /\ pc[p] = "cb_lock"
  /\ LET v == call[p].vehicle_id
     IN IF ~ vehicles[v].exists
          THEN Rollback(p, "VehicleNotFound")
          ELSE /\ LockFree(vlock, v, p)
               /\ vlock' = [vlock EXCEPT ![v] = p]
               /\ call' = [call EXCEPT ![p].daily = vehicles[v].daily_rent_price]
               /\ pc' = [pc EXCEPT ![p] = "cb_overlap"]
               /\ UNCHANGED <<env, nextVehicleId, vehicles, bookings, nextId, now, block, tx, calls, last>>

\* lines 128-135: count(*) of the active bookings of the vehicle that overlap
OverlapCount(rows, vid, newStart, newEnd) ==
  Cardinality({ r \in rows : /\ r.vehicle_id = vid
                             /\ r.status = "active"
                             /\ Overlaps(r.rent_start_date, r.rent_end_date, newStart, newEnd) })

\* lines 126-140: the overlap check
CbOverlap(p) ==
  /\ pc[p] = "cb_overlap"
  /\ LET c == call[p]
     IN IF OverlapCount(bookings \cup tx[p].insert, c.vehicle_id, c.s, c.e) > 0
          THEN Rollback(p, "NotAvailable")
          ELSE /\ pc' = [pc EXCEPT ![p] = "cb_insert"]
               /\ UNCHANGED <<env, nextVehicleId, vehicles, bookings, nextId, now, vlock, block, call, tx, calls, last>>

\* lines 144-145: Number((daily * days).toFixed(2)), in cents
TotalPrice(daily, days) == daily * days

\* lines 148-154: INSERT INTO bookings ... 'active' RETURNING ...
CbInsert(p) ==
  /\ pc[p] = "cb_insert"
  /\ LET c == call[p]
         row == [id |-> nextId, customer_id |-> c.customerId, vehicle_id |-> c.vehicle_id,
                 rent_start_date |-> c.s, rent_end_date |-> c.e,
                 total_price |-> TotalPrice(c.daily, c.days), status |-> "active"]
     IN /\ tx' = [tx EXCEPT ![p].insert = {row}]
        /\ call' = [call EXCEPT ![p].booking = row]
  /\ nextId' = nextId + 1
  /\ pc' = [pc EXCEPT ![p] = "cb_update"]
  /\ UNCHANGED <<env, nextVehicleId, vehicles, bookings, now, vlock, block, calls, last>>

\* lines 156-159: UPDATE vehicles SET availability_status = 'booked'
CbUpdateVehicle(p) ==
  /\ pc[p] = "cb_update"
  /\ LockFree(vlock, call[p].vehicle_id, p)
  /\ vlock' = [vlock EXCEPT ![call[p].vehicle_id] = p]
  /\ tx' = [tx EXCEPT ![p].vavail = <<call[p].vehicle_id, "booked">>]
  /\ pc' = [pc EXCEPT ![p] = "cb_commit"]
  /\ UNCHANGED <<env, nextVehicleId, vehicles, bookings, nextId, now, block, call, calls, last>>

\* lines 161-172: COMMIT and the returned booking
CbCommit(p) ==
  /\ pc[p] = "cb_commit"
  /\ bookings' = CommitBookings(bookings, tx[p])
  /\ vehicles' = CommitVehicles(vehicles, tx[p])
  /\ Finish(p, [call[p] EXCEPT !.code = "ok"])
  /\ UNCHANGED <<env, nextVehicleId, nextId, now, calls, last>>

\* lines 173-181: a query of the transaction throws; ROLLBACK, status 500
CbFault(p) ==
  /\ pc[p] \in {"cb_lock", "cb_overlap", "cb_insert", "cb_update", "cb_commit"}
  /\ Rollback(p, "Internal")

\* ---------------------------------------------------------------- getBookings
RECURSIVE OrderByIdDesc(_)
\* ORDER BY b.id DESC
OrderByIdDesc(rows) ==
  IF rows = {} THEN <<>>
  ELSE LET top == CHOOSE r \in rows : \A q \in rows : q.id <= r.id
       IN <<top>> \o OrderByIdDesc(rows \ {top})

\* the customer branch without its WHERE b.customer_id = $1
GetBookingsRowsAll(rows, actor) == rows

\* lines 196-248: the rows the two queries select
GetBookingsRows(rows, actor) ==
  IF actor.role = "admin"
    THEN rows
    ELSE { r \in rows : r.customer_id = actor.id }

\* getBookings: one query on the pool, no transaction
GetBookings(p) ==
  /\ pc[p] = "idle"
  /\ calls < MaxCalls
  /\ PoolHasFree(pc)
  /\ \E actor \in env.actors :
       Reject(p, [NewCall("list", actor) EXCEPT
                    !.code = "ok",
                    !.ret = OrderByIdDesc(GetBookingsRows(bookings, actor))])
  /\ Receive(p)
  /\ UNCHANGED <<env, nextVehicleId, vehicles, bookings, nextId, now>>

\* ---------------------------------------------------------------- updateBooking
\* UbCheck with the date gate written today > start
UbCheckStrictlyAfter(found, status, actor, today) ==
  IF actor = NoActor THEN "Unauthorized"
  ELSE IF found = {} THEN "BookingNotFound"
  ELSE LET booking == CHOOSE r \in found : TRUE
       IN IF status = "cancelled"
            THEN IF actor.role = "customer" /\ actor.id # booking.customer_id
                   THEN "Forbidden"
                 ELSE IF ~ isValid(booking.rent_start_date)
                   THEN "Internal"
                 ELSE IF today > toDate(booking.rent_start_date)
                   THEN "CancelTooLate"
                 ELSE "pass"
          ELSE IF status = "returned"
            THEN IF actor.role # "admin" THEN "Forbidden" ELSE "pass"
          ELSE "UnsupportedStatus"

\* UbCheck with 'returned' open to the customer who owns the booking
UbCheckOwnerReturns(found, status, actor, today) ==
  IF actor = NoActor THEN "Unauthorized"
  ELSE IF found = {} THEN "BookingNotFound"
  ELSE LET booking == CHOOSE r \in found : TRUE
       IN IF status = "cancelled"
            THEN IF actor.role = "customer" /\ actor.id # booking.customer_id
                   THEN "Forbidden"
                 ELSE IF ~ isValid(booking.rent_start_date)
                   THEN "Internal"
                 ELSE IF today >= toDate(booking.rent_start_date)
                   THEN "CancelTooLate"
                 ELSE "pass"
          ELSE IF status = "returned"
            THEN IF actor.role # "admin" /\ actor.id # booking.customer_id
                   THEN "Forbidden" ELSE "pass"
          ELSE "UnsupportedStatus"

\* UbCheck without the ownership test of the cancel branch
UbCheckNoOwnership(found, status, actor, today) ==
  IF actor = NoActor THEN "Unauthorized"
  ELSE IF found = {} THEN "BookingNotFound"
  ELSE LET booking == CHOOSE r \in found : TRUE
       IN IF status = "cancelled"
            THEN IF ~ isValid(booking.rent_start_date)
                   THEN "Internal"
                 ELSE IF today >= toDate(booking.rent_start_date)
                   THEN "CancelTooLate"
                 ELSE "pass"
          ELSE IF status = "returned"
            THEN IF actor.role # "admin" THEN "Forbidden" ELSE "pass"
          ELSE "UnsupportedStatus"

\* UbCheck with every status other than 'cancelled' taken as a return
UbCheckDefaultsToReturn(found, status, actor, today) ==
  IF actor = NoActor THEN "Unauthorized"
  ELSE IF found = {} THEN "BookingNotFound"
  ELSE LET booking == CHOOSE r \in found : TRUE
       IN IF status = "cancelled"
            THEN IF actor.role = "customer" /\ actor.id # booking.customer_id
                   THEN "Forbidden"
                 ELSE IF ~ isValid(booking.rent_start_date)
                   THEN "Internal"
                 ELSE IF today >= toDate(booking.rent_start_date)
                   THEN "CancelTooLate"
                 ELSE "pass"
          ELSE IF actor.role # "admin" THEN "Forbidden" ELSE "pass"

\* UbCheck with the date gate of the cancel branch on the return branch too
UbCheckReturnGated(found, status, actor, today) ==
  IF actor = NoActor THEN "Unauthorized"
  ELSE IF found = {} THEN "BookingNotFound"
  ELSE LET booking == CHOOSE r \in found : TRUE
       IN IF status = "cancelled"
            THEN IF actor.role = "customer" /\ actor.id # booking.customer_id
                   THEN "Forbidden"
                 ELSE IF ~ isValid(booking.rent_start_date)
                   THEN "Internal"
                 ELSE IF today >= toDate(booking.rent_start_date)
                   THEN "CancelTooLate"
                 ELSE "pass"
          ELSE IF status = "returned"
            THEN IF actor.role # "admin" THEN "Forbidden"
                 ELSE IF today >= toDate(booking.rent_start_date) THEN "CancelTooLate"
                 ELSE "pass"
          ELSE "UnsupportedStatus"

\* UbCheck with any other status written as given when the admin asks for it
UbCheckAdminAnyStatus(found, status, actor, today) ==
  IF actor = NoActor THEN "Unauthorized"
  ELSE IF found = {} THEN "BookingNotFound"
  ELSE LET booking == CHOOSE r \in found : TRUE
       IN IF status = "cancelled"
            THEN IF actor.role = "customer" /\ actor.id # booking.customer_id
                   THEN "Forbidden"
                 ELSE IF ~ isValid(booking.rent_start_date)
                   THEN "Internal"
                 ELSE IF today >= toDate(booking.rent_start_date)
                   THEN "CancelTooLate"
                 ELSE "pass"
          ELSE IF status = "returned"
            THEN IF actor.role # "admin" THEN "Forbidden" ELSE "pass"
          ELSE IF actor.role = "admin" THEN "pass"
          ELSE "UnsupportedStatus"

\* lines 265-365: the checks made on the fetched booking before a transaction
\* is opened; found = the rows of SELECT * FROM bookings WHERE id = $1
UbCheck(found, status, actor, today) ==
  IF actor = NoActor THEN "Unauthorized"
  ELSE IF found = {} THEN "BookingNotFound"
  ELSE LET booking == CHOOSE r \in found : TRUE
       IN IF status = "cancelled"
            THEN IF actor.role = "customer" /\ actor.id # booking.customer_id
                   THEN "Forbidden"
                 ELSE IF ~ isValid(booking.rent_start_date)
                   THEN "Internal"
                 ELSE IF today >= toDate(booking.rent_start_date)
                   THEN "CancelTooLate"
                 ELSE "pass"
          ELSE IF status = "returned"
            THEN IF actor.role # "admin" THEN "Forbidden" ELSE "pass"
          ELSE "UnsupportedStatus"

\* updateBooking up to pool.connect(): the fetch and the checks on its result
UpdateBookingStart(p) ==
  /\ pc[p] = "idle"
  /\ calls < MaxCalls
  /\ PoolHasFree(pc)
  /\ \E actor \in env.actors, bookingId \in env.bookingIds, status \in env.statuses :
       LET found == BookingRows(bookings, bookingId)
           v == UbCheck(found, status, actor, now)
           c == [NewCall("update", actor) EXCEPT
                   !.bookingId = bookingId, !.status = status,
                   !.booking = IF found = {} THEN NoRow ELSE CHOOSE r \in found : TRUE]
       IN IF v = "pass"
            THEN /\ pc' = [pc EXCEPT ![p] = "ub_booking"]
                 /\ call' = [call EXCEPT ![p] = c]
                 /\ UNCHANGED <<tx, vlock, block>>
            ELSE Reject(p, [c EXCEPT !.code = v])
  /\ Receive(p)
  /\ UNCHANGED <<env, nextVehicleId, vehicles, bookings, nextId, now>>

\* the booking write sent on the pool instead of the transaction's client:
\* it is committed by itself
UbWriteBookingAutocommit(p) ==
  /\ pc[p] = "ub_booking"
  /\ LockFree(block, call[p].bookingId, p)
  /\ bookings' = CommitBookings(bookings, [NoTx EXCEPT !.bstatus = <<call[p].bookingId, call[p].status>>])
  /\ pc' = [pc EXCEPT ![p] = "ub_vehicle"]
  /\ UNCHANGED <<env, nextVehicleId, vehicles, nextId, now, vlock, block, call, tx, calls, last>>

\* lines 307-308 and 339-340: BEGIN; UPDATE bookings SET status = ... WHERE id = $1
UbWriteBooking(p) ==
  /\ pc[p] = "ub_booking"
  /\ LET id == call[p].bookingId
     IN IF BookingRows(bookings, id) = {}
          THEN UNCHANGED <<block, tx>>
          ELSE /\ LockFree(block, id, p)
               /\ block' = [block EXCEPT ![id] = p]
               /\ tx' = [tx EXCEPT ![p].bstatus = <<id, call[p].status>>]
  /\ pc' = [pc EXCEPT ![p] = "ub_vehicle"]
  /\ UNCHANGED <<env, nextVehicleId, vehicles, bookings, nextId, now, vlock, call, calls, last>>

\* lines 309-311 and 341-343: UPDATE vehicles SET availability_status = 'available'
\* WHERE id = booking.vehicle_id, the vehicle of the booking as fetched
UbWriteVehicle(p) ==
  /\ pc[p] = "ub_vehicle"
  /\ LET v == call[p].booking.vehicle_id
     IN IF ~ vehicles[v].exists
          THEN UNCHANGED <<vlock, tx>>
          ELSE /\ LockFree(vlock, v, p)
               /\ vlock' = [vlock EXCEPT ![v] = p]
               /\ tx' = [tx EXCEPT ![p].vavail = <<v, "available">>]
  /\ pc' = [pc EXCEPT ![p] = "ub_commit"]
  /\ UNCHANGED <<env, nextVehicleId, vehicles, bookings, nextId, now, block, call, calls, last>>

\* lines 312 and 344: COMMIT
UbCommit(p) ==
  /\ pc[p] = "ub_commit"
  /\ bookings' = CommitBookings(bookings, tx[p])
  /\ vehicles' = CommitVehicles(vehicles, tx[p])
  /\ pc' = [pc EXCEPT ![p] = "ub_reread"]
  /\ tx' = [tx EXCEPT ![p] = NoTx]
  /\ vlock' = ReleaseLocks(vlock, p)
  /\ block' = ReleaseLocks(block, p)
  /\ UNCHANGED <<env, nextVehicleId, nextId, now, call, calls, last>>

\* lines 313-317 and 345-351: the booking is read again on the pool, on a second
\* connection while the client of the transaction is still held, and returned;
\* for 'returned' a missing row makes result.vehicle = ... throw into the catch
UbReread(p) ==
  /\ pc[p] = "ub_reread"
  /\ PoolHasFree(pc)
  /\ LET found == BookingRows(bookings, call[p].bookingId)
     IN IF found = {}
          THEN Finish(p, [call[p] EXCEPT !.booking = NoRow,
                            !.code = IF call[p].status = "returned" THEN "Internal" ELSE "ok"])
          ELSE Finish(p, [call[p] EXCEPT !.booking = CHOOSE r \in found : TRUE,
                                         !.code = "ok"])
  /\ UNCHANGED <<env, nextVehicleId, vehicles, bookings, nextId, now, calls, last>>

\* lines 318-326 and 352-360: a query of the transaction throws; ROLLBACK, 500
UbFault(p) ==
  /\ pc[p] \in {"ub_booking", "ub_vehicle", "ub_commit"}
  /\ Rollback(p, "Internal")

\* the same catch when the read after COMMIT, once it has a connection,
\* throws: the ROLLBACK finds no transaction open
UbRereadFault(p) ==
  /\ pc[p] = "ub_reread"
  /\ PoolHasFree(pc)
  /\ Rollback(p, "Internal")

\* ---------------------------------------------------------------- createVehicle
\* lines 30-53: the checks on the input (0 = no daily_rent_price given)
CvValidate(price) ==
  IF price = 0 THEN "MissingFields"
  ELSE IF price <= 0 THEN "NotPositive"
  ELSE "pass"

\* createVehicle, admin only (POST /): one INSERT on the pool, with the
\* availability_status of the input, whatever it is, or 'available' when the
\* input has none.  An INSERT the store rejects (registration number taken,
\* connection lost) may or may not have drawn an id from the sequence.
CreateVehicle(p) ==
  /\ pc[p] = "idle"
  /\ calls < MaxCalls
  /\ PoolHasFree(pc)
  /\ nextVehicleId \in VehicleIds
  /\ \E price \in env.prices, avail \in env.avails :
       LET c == [NewCall("createVehicle", Admin) EXCEPT
                   !.vehicle_id = nextVehicleId, !.daily = price, !.status = avail]
           v == CvValidate(price)
       IN IF v # "pass"
            THEN /\ Reject(p, [c EXCEPT !.vehicle_id = 0, !.code = v])
                 /\ UNCHANGED <<vehicles, nextVehicleId>>
            ELSE \/ /\ Reject(p, [c EXCEPT !.code = "ok"])
                    /\ vehicles' = [vehicles EXCEPT ![nextVehicleId] =
                         [exists |-> TRUE, daily_rent_price |-> price,
                          availability_status |-> IF avail = "none" THEN "available" ELSE avail]]
                    /\ nextVehicleId' = nextVehicleId + 1
                 \/ /\ Reject(p, [c EXCEPT !.vehicle_id = 0, !.code = "Internal"])
                    /\ vehicles' = vehicles
                    /\ nextVehicleId' \in {nextVehicleId, nextVehicleId + 1}
  /\ Receive(p)
  /\ UNCHANGED <<env, bookings, nextId, now>>

\* ---------------------------------------------------------------- updateVehicle
\* the SET list of lines 128-140 applied to the row
UvApply(row, price, avail) ==
  [row EXCEPT !.daily_rent_price = IF price = 0 THEN @ ELSE price,
              !.availability_status = IF avail = "none" THEN @ ELSE avail]

\* updateVehicle, admin only (PUT /:vehicleId): one statement on the pool.
\* With no column to set the row is read and returned; otherwise the UPDATE
\* waits for the row lock, a price the CHECK rejects or any other store error
\* is answered 500, and so is the 404 thrown inside the try for a missing row.
UpdateVehicle(p) ==
  /\ pc[p] = "idle"
  /\ calls < MaxCalls
  /\ PoolHasFree(pc)
  /\ \E vid \in env.fleetIds, price \in env.prices, avail \in env.avails :
       LET c == [NewCall("updateVehicle", Admin) EXCEPT
                   !.vehicle_id = vid, !.daily = price, !.status = avail]
       IN IF price = 0 /\ avail = "none"
            THEN /\ Reject(p, [c EXCEPT !.code = IF vehicles[vid].exists THEN "ok"
                                                  ELSE "VehicleNotFound"])
                 /\ vehicles' = vehicles
          ELSE IF ~ vehicles[vid].exists
            THEN /\ Reject(p, [c EXCEPT !.code = "Internal"])
                 /\ vehicles' = vehicles
          ELSE /\ LockFree(vlock, vid, p)
               /\ \/ /\ price >= 0
                     /\ Reject(p, [c EXCEPT !.code = "ok"])
                     /\ vehicles' = [vehicles EXCEPT ![vid] = UvApply(@, price, avail)]
                  \/ /\ Reject(p, [c EXCEPT !.code = "Internal"])
                     /\ vehicles' = vehicles
  /\ Receive(p)
  /\ UNCHANGED <<env, nextVehicleId, bookings, nextId, now>>

\* ---------------------------------------------------------------- deleteVehicle
\* lines 193-199: SELECT id FROM vehicles WHERE id = $1
DeleteVehicleStart(p) ==
  /\ pc[p] = "idle"
  /\ calls < MaxCalls
  /\ PoolHasFree(pc)
  /\ \E vid \in env.fleetIds :
       LET c == [NewCall("deleteVehicle", Admin) EXCEPT !.vehicle_id = vid]
       IN IF vehicles[vid].exists
            THEN /\ pc' = [pc EXCEPT ![p] = "dv_count"]
                 /\ call' = [call EXCEPT ![p] = c]
                 /\ UNCHANGED <<tx, vlock, block>>
            ELSE Reject(p, [c EXCEPT !.code = "VehicleNotFound"])
  /\ Receive(p)
  /\ UNCHANGED <<env, nextVehicleId, vehicles, bookings, nextId, now>>

\* lines 201-211: count(*) of the committed active bookings of the vehicle
DvCount(p) ==
  /\ pc[p] = "dv_count"
  /\ PoolHasFree(pc)
  /\ IF Cardinality({ r \in bookings : r.vehicle_id = call[p].vehicle_id /\ r.status = "active" }) > 0
       THEN Rollback(p, "ActiveBookings")
       ELSE /\ pc' = [pc EXCEPT ![p] = "dv_delete"]
            /\ UNCHANGED <<env, nextVehicleId, vehicles, bookings, nextId, now, vlock, block, call, tx, calls, last>>

\* line 213: DELETE FROM vehicles WHERE id = $1 takes the lock of the row
DvDelete(p) ==
  /\ pc[p] = "dv_delete"
  /\ PoolHasFree(pc)
  /\ LET v == call[p].vehicle_id
     IN IF vehicles[v].exists
          THEN /\ LockFree(vlock, v, p)
               /\ vlock' = [vlock EXCEPT ![v] = p]
          ELSE vlock' = vlock
  /\ pc' = [pc EXCEPT ![p] = "dv_cascade"]
  /\ UNCHANGED <<env, nextVehicleId, vehicles, bookings, nextId, now, block, call, tx, calls, last>>

\* the bookings of the vehicle go with it, whatever their status
CascadeBookings(rows, v) == { r \in rows : r.vehicle_id # v }

\* ON DELETE CASCADE of bookings.vehicle_id (initDB): the statement deletes the
\* bookings of the vehicle, waiting for their row locks, and is committed
DvCascade(p) ==
  /\ pc[p] = "dv_cascade"
  /\ LET v == call[p].vehicle_id
     IN IF vehicles[v].exists /\ vlock[v] = p
          THEN /\ \A r \in bookings : r.vehicle_id = v => LockFree(block, r.id, p)
               /\ vehicles' = [vehicles EXCEPT ![v] = NoVehicle]
               /\ bookings' = CascadeBookings(bookings, v)
          ELSE UNCHANGED <<vehicles, bookings>>
  /\ Finish(p, [call[p] EXCEPT !.code = "ok"])
  /\ UNCHANGED <<env, nextVehicleId, nextId, now, calls, last>>

\* lines 214-225: a query throws; nothing of the statement is applied, 500
DvFault(p) ==
  /\ pc[p] \in {"dv_count", "dv_delete", "dv_cascade"}
  /\ Rollback(p, "Internal")

\* ---------------------------------------------------------------- clock
Tick ==
  /\ now < MaxNow
  /\ now' = now + 1
  /\ UNCHANGED <<env, nextVehicleId, vehicles, bookings, nextId, vlock, block, pc, call, tx, calls, last>>

Next ==
  \/ \E p \in Procs : CreateBookingStart(p)
  \/ \E p \in Procs : CbLockVehicle(p)
  \/ \E p \in Procs : CbOverlap(p)
  \/ \E p \in Procs : CbInsert(p)
  \/ \E p \in Procs : CbUpdateVehicle(p)
  \/ \E p \in Procs : CbCommit(p)
  \/ \E p \in Procs : CbFault(p)
  \/ \E p \in Procs : GetBookings(p)
  \/ \E p \in Procs : UpdateBookingStart(p)
  \/ \E p \in Procs : UbWriteBooking(p)
  \/ \E p \in Procs : UbWriteVehicle(p)
  \/ \E p \in Procs : UbCommit(p)
  \/ \E p \in Procs : UbReread(p)
  \/ \E p \in Procs : UbFault(p)
  \/ \E p \in Procs : UbRereadFault(p)
  \/ \E p \in Procs : CreateVehicle(p)
  \/ \E p \in Procs : UpdateVehicle(p)
  \/ \E p \in Procs : DeleteVehicleStart(p)
  \/ \E p \in Procs : DvCount(p)
  \/ \E p \in Procs : DvDelete(p)
  \/ \E p \in Procs : DvCascade(p)
  \/ \E p \in Procs : DvFault(p)
  \/ Tick

Spec == Init /\ [][Next]_vars

\* ================================================================ claims
Terminal == {"cancelled", "returned"}

ActiveOn(v) == { r \in bookings : r.vehicle_id = v /\ r.status = "active" }

DaysOf(r) == r.rent_start_date .. r.rent_end_date

\* p is the request received in this step
Starts(p) == calls' = calls + 1 /\ last' = p

Done(p, op) == pc[p] = "idle" /\ call[p].op = op /\ call[p].code # "none"

\* C1: no two active bookings of one vehicle have date ranges that share a
\* day, in every reachable state; ranges that touch on one day share it.
C1_NoDoubleBooking ==
  \A a \in bookings, b \in bookings :
    (a.id # b.id /\ a.vehicle_id = b.vehicle_id /\ a.status = "active" /\ b.status = "active")
      => DaysOf(a) \cap DaysOf(b) = {}

\* two active bookings share a vehicle, and a request for a touching or
\* crossing range on an occupied vehicle has been turned away
C1_Witness ==
  /\ \E a \in bookings, b \in bookings :
       a.id # b.id /\ a.vehicle_id = b.vehicle_id /\ a.status = "active" /\ b.status = "active"
  /\ \E p \in Procs : Done(p, "create") /\ call[p].code = "NotAvailable"

\* C2: of two createBooking requests for one vehicle that run concurrently
\* with ranges one of which contains the other, on a vehicle no other booking
\* refers to and with no query rejected by the store, exactly one commits
\* its booking and the other is answered "not available".
Racing(p, q) ==
  /\ p # q
  /\ Done(p, "create") /\ Done(q, "create")
  /\ call[p].vehicle_id = call[q].vehicle_id
  /\ call[p].code \in {"ok", "NotAvailable"} /\ call[q].code \in {"ok", "NotAvailable"}
  /\ \/ call[p].s <= call[q].s /\ call[q].e <= call[p].e
     \/ call[q].s <= call[p].s /\ call[p].e <= call[q].e
  /\ p \in call[q].conc
  /\ \A r \in bookings : r.id \in {call[p].booking.id, call[q].booking.id}

Committed(p) ==
  /\ call[p].code = "ok"
  /\ \E r \in bookings : r.id = call[p].booking.id /\ r.status = "active"

Refused(p) ==
  /\ call[p].code = "NotAvailable"
  /\ \A r \in bookings : r.id # call[p].booking.id

C2_ExactlyOneWins ==
  \A p \in Procs, q \in Procs :
    Racing(p, q) => \/ Committed(p) /\ Refused(q)
                    \/ Committed(q) /\ Refused(p)

\* the loser of such a race was waiting for the vehicle row while the winner
\* held it: both ran at once and the second to start is the one that won
C2_Witness ==
  \E p \in Procs, q \in Procs : Racing(p, q) /\ Committed(q) /\ Refused(p)

\* C3: a vehicle is stored as 'booked' exactly when an active booking refers
\* to it.
C3_BookedIffActive ==
  \A v \in VehicleIds :
    vehicles[v].exists =>
      (vehicles[v].availability_status = "booked" <=> ActiveOn(v) # {})

\* C4: cancelled and returned are terminal: the status of a booking that is
\* cancelled or returned never changes again, and updateBooking on such a
\* booking is turned away before it opens a transaction.
C4_TerminalIsFinal ==
  [][ /\ \A r \in bookings, t \in bookings' :
           (r.id = t.id /\ r.status \in Terminal) => t.status = r.status
      /\ \A p \in Procs :
           (Starts(p) /\ call'[p].op = "update" /\ call'[p].booking.status \in Terminal)
             => pc'[p] = "idle" /\ call'[p].code # "ok" ]_vars

\* C5: a createBooking that does not end in success never changes the
\* committed tables: every step of its transaction other than the COMMIT that
\* answers "ok" leaves bookings and vehicles as they were, and the row it
\* inserted is in no committed state.
CbSteps == {"cb_lock", "cb_overlap", "cb_insert", "cb_update", "cb_commit"}

C5_CreateAllOrNothing ==
  [][ \A p \in Procs :
        (pc[p] \in CbSteps /\ pc'[p] # pc[p] /\ ~ (pc'[p] = "idle" /\ call'[p].code = "ok"))
          => /\ bookings' = bookings
             /\ vehicles' = vehicles
             /\ \A r \in bookings' : r.id # call'[p].booking.id ]_vars

\* a createBooking failed after its INSERT; its row is not in the table
C5_Witness ==
  \E p \in Procs :
    /\ Done(p, "create") /\ call[p].code = "Internal"
    /\ call[p].booking.id # 0
    /\ \A r \in bookings : r.id # call[p].booking.id

\* C6: a cancel or return makes its two writes visible in one step: whenever
\* a step of its transaction changes a committed table, that step is its
\* COMMIT and leaves the booking with the new status and the vehicle of the
\* booking available.
UbSteps == {"ub_booking", "ub_vehicle", "ub_commit"}

C6_WritesVisibleTogether ==
  [][ \A p \in Procs :
        (pc[p] \in UbSteps /\ pc'[p] # pc[p] /\ (bookings' # bookings \/ vehicles' # vehicles))
          => /\ pc[p] = "ub_commit"
             /\ \A r \in bookings' : r.id = call[p].bookingId => r.status = call[p].status
             /\ vehicles'[call[p].booking.vehicle_id].availability_status = "available" ]_vars

\* a cancel or return of an active booking has just committed
C6_Witness ==
  \E p \in Procs :
    /\ pc[p] = "ub_reread"
    /\ call[p].booking.status = "active"
    /\ \E r \in bookings : r.id = call[p].bookingId /\ r.status = call[p].status
    /\ vehicles[call[p].booking.vehicle_id].availability_status = "available"

\* C7: a cancel by the admin or by the owner of a booking whose start day is
\* today or earlier is answered "cancellation allowed only before start date"
\* and changes nothing; with a later start day it opens its transaction, and
\* its COMMIT leaves the booking cancelled and the vehicle available (the
\* booking being still in the table when the cancel writes it: a booking
\* deleted with its vehicle in between is gone).
DayOf(t) == t \div 2

MayCancel(c) == c.actor.role = "admin" \/ c.actor.id = c.booking.customer_id

C7_CancelDateGate ==
  [][ \A p \in Procs :
        /\ (Starts(p) /\ call'[p].op = "update" /\ call'[p].status = "cancelled"
              /\ call'[p].booking.id # 0 /\ MayCancel(call'[p]))
             => IF call'[p].booking.rent_start_date <= DayOf(now)
                  THEN /\ pc'[p] = "idle" /\ call'[p].code = "CancelTooLate"
                       /\ bookings' = bookings /\ vehicles' = vehicles
                  ELSE pc'[p] = "ub_booking"
        /\ (pc[p] = "ub_commit" /\ pc'[p] = "ub_reread" /\ call[p].status = "cancelled"
              /\ tx[p].bstatus # <<>>)
             => /\ \E r \in bookings' : r.id = call[p].bookingId /\ r.status = "cancelled"
                /\ vehicles'[call[p].booking.vehicle_id].availability_status = "available" ]_vars

\* the owner cancelled a booking before its start day and the admin was
\* refused on or after it
C7_Witness ==
  \E p \in Procs, q \in Procs :
    /\ Done(p, "update") /\ call[p].status = "cancelled" /\ call[p].code = "ok"
    /\ call[p].actor.role = "customer"
    /\ call[p].booking.status = "cancelled"
    /\ vehicles[call[p].booking.vehicle_id].availability_status = "available"
    /\ Done(q, "update") /\ call[q].status = "cancelled" /\ call[q].code = "CancelTooLate"
    /\ call[q].actor.role = "admin"

\* C8: updateBooking to 'returned' by a customer opens no transaction and
\* changes nothing; on a booking that exists, the customer's own included, it
\* is answered Forbidden.
C8_CustomerCannotReturn ==
  [][ \A p \in Procs :
        (Starts(p) /\ call'[p].op = "update" /\ call'[p].status = "returned"
           /\ call'[p].actor.role = "customer")
          => /\ pc'[p] = "idle"
             /\ call'[p].code # "ok"
             /\ call'[p].booking.id # 0 => call'[p].code = "Forbidden"
             /\ bookings' = bookings /\ vehicles' = vehicles ]_vars

\* a customer was refused the return of the booking it owns
C8_Witness ==
  \E p \in Procs :
    /\ Done(p, "update") /\ call[p].status = "returned"
    /\ call[p].actor.role = "customer"
    /\ call[p].actor.id = call[p].booking.customer_id
    /\ call[p].code = "Forbidden"

\* C9: a cancel gets past the checks only for the admin or the customer the
\* booking belongs to; a customer who does not own the booking is answered
\* Forbidden and nothing changes.
C9_CancelNeedsOwnerOrAdmin ==
  [][ \A p \in Procs :
        /\ (Starts(p) /\ call'[p].op = "update" /\ call'[p].status = "cancelled"
              /\ call'[p].booking.id # 0 /\ ~ MayCancel(call'[p]))
             => /\ pc'[p] = "idle" /\ call'[p].code = "Forbidden"
                /\ bookings' = bookings /\ vehicles' = vehicles
        /\ (call'[p].op = "update" /\ call'[p].status = "cancelled"
              /\ (pc'[p] # "idle" \/ call'[p].code = "ok"))
             => MayCancel(call'[p]) ]_vars

\* Bob was refused the cancellation of Alice's booking, which is still active
C9_Witness ==
  \E p \in Procs :
    /\ Done(p, "update") /\ call[p].status = "cancelled" /\ call[p].code = "Forbidden"
    /\ call[p].actor.role = "customer"
    /\ call[p].booking.customer_id # call[p].actor.id
    /\ \E r \in bookings : r.id = call[p].bookingId /\ r.status = "active"

\* C10: getBookings answers a customer with exactly the bookings whose
\* customer id is the actor's id and an admin with every booking, each once.
Listed(c) == { c.ret[i] : i \in 1..Len(c.ret) }

C10_ListIsOwnOrAll ==
  [][ \A p \in Procs :
        (Starts(p) /\ call'[p].op = "list")
          => LET c == call'[p]
                 expected == IF c.actor.role = "admin" THEN bookings
                             ELSE { r \in bookings : r.customer_id = c.actor.id }
             IN /\ c.code = "ok"
                /\ Listed(c) = expected
                /\ Len(c.ret) = Cardinality(expected) ]_vars

\* a customer got its own booking and not the other customer's: the list was
\* the last request, made with none in flight
C10_Witness ==
  \E p \in Procs :
    /\ Done(p, "list") /\ call[p].actor.role = "customer"
    /\ last = p /\ call[p].conc = {}
    /\ Len(call[p].ret) >= 1
    /\ \E r \in bookings : r.customer_id # call[p].actor.id

\* C11: a booking created by a customer carries that customer's id: the row a
\* customer's createBooking inserts, and the row its COMMIT adds to the table,
\* have customer_id equal to the actor's id; a customer naming another
\* customer never gets past the checks.
C11_CustomerBooksForSelf ==
  [][ \A p \in Procs :
        (call'[p].op = "create" /\ call'[p].actor.role = "customer")
          => /\ pc'[p] # "idle" => call'[p].customerId = call'[p].actor.id
             /\ \A r \in tx'[p].insert : r.customer_id = call'[p].actor.id
             /\ (pc[p] = "cb_commit" /\ pc'[p] = "idle")
                  => \A r \in bookings' \ bookings : r.customer_id = call'[p].actor.id ]_vars

\* a customer's booking is committed under its own id, and a customer who
\* named another customer was answered Forbidden
C11_Witness ==
  \E p \in Procs, q \in Procs :
    /\ Done(p, "create") /\ call[p].code = "ok" /\ call[p].actor.role = "customer"
    /\ \E r \in bookings : r.id = call[p].booking.id /\ r.customer_id = call[p].actor.id
    /\ Done(q, "create") /\ call[q].code = "Forbidden" /\ call[q].actor.role = "customer"

\* C12: no booking exists without a customer id (0 is the NULL an admin's
\* createBooking stores when the request names no customer).
C12_EveryBookingHasCustomer ==
  \A r \in bookings : r.customer_id # 0

\* C13: a createBooking whose end date is before its start date ends in the
\* step that receives it, without a transaction: it is answered with the
\* invalid-range error (a customer naming another customer is answered
\* Forbidden by the earlier check), no row lock is taken, no write is pending
\* and the tables are unchanged.
C13_EndBeforeStartRejected ==
  [][ \A p \in Procs :
        (Starts(p) /\ call'[p].op = "create"
           /\ isValid(call'[p].s) /\ isValid(call'[p].e) /\ call'[p].e < call'[p].s)
          => /\ pc'[p] = "idle"
             /\ call'[p].code \in {"InvalidRange", "Forbidden"}
             /\ call'[p].actor.role = "admin" => call'[p].code = "InvalidRange"
             /\ vlock' = vlock /\ block' = block /\ tx' = tx
             /\ bookings' = bookings /\ vehicles' = vehicles /\ nextId' = nextId ]_vars

\* a request for day 2 down to day 1 was answered with the invalid-range
\* error while it held no lock
C13_Witness ==
  \E p \in Procs :
    /\ Done(p, "create") /\ call[p].code = "InvalidRange"
    /\ call[p].e >= 1 /\ call[p].e < call[p].s
    /\ \A v \in VehicleIds : vlock[v] # p

\* C14: the overlap check of createBooking answers "not available" exactly
\* when an active booking of the vehicle shares a day with the requested
\* range: a request that starts on the last day of such a booking, or ends on
\* its first day, is refused, and a request clear of every active booking of
\* the vehicle (starting the day after one ends included) goes on to its
\* INSERT.
SharesDay(r, c) == DaysOf(r) \cap (c.s .. c.e) # {}

Touches(r, c) == r.rent_end_date = c.s \/ r.rent_start_date = c.e

C14_OverlapRule ==
  [][ \A p \in Procs :
        (pc[p] = "cb_overlap" /\ pc'[p] # "cb_overlap" /\ call'[p].code # "Internal")
          => LET c == call[p]
                 active == ActiveOn(c.vehicle_id)
                 refused == pc'[p] = "idle" /\ call'[p].code = "NotAvailable"
             IN /\ refused <=> (\E r \in active : SharesDay(r, c))
                /\ (\E r \in active : Touches(r, c)) => refused
                /\ (\A r \in active : r.rent_end_date < c.s \/ r.rent_start_date > c.e)
                     => pc'[p] = "cb_insert" ]_vars

\* a request ending on the first day of an active booking was refused, and a
\* booking that ends the day before another one starts is committed
C14_Witness ==
  \E p \in Procs, q \in Procs :
    /\ Done(q, "create") /\ call[q].code = "NotAvailable"
    /\ \E r \in ActiveOn(call[q].vehicle_id) : Touches(r, call[q])
    /\ Done(p, "create") /\ call[p].code = "ok"
    /\ \E a \in ActiveOn(call[p].vehicle_id), b \in ActiveOn(call[p].vehicle_id) :
         /\ a.id = call[p].booking.id
         /\ a.rent_start_date = b.rent_end_date + 1 \/ b.rent_start_date = a.rent_end_date + 1

\* C15: the booking a successful createBooking commits has a total price
\* equal to the daily price of its vehicle times the number of days of its
\* range, both ends counted (at least one day); the daily price is the one
\* read under the row lock, which is still the price of the vehicle when
\* the booking is committed.
C15_PriceIsDailyTimesDays ==
  [][ \A p \in Procs :
        (pc[p] = "cb_commit" /\ pc'[p] = "idle" /\ call'[p].code = "ok")
          => /\ bookings' \ bookings # {}
             /\ \A r \in bookings' \ bookings :
                  /\ Cardinality(DaysOf(r)) >= 1
                  /\ r.total_price = call[p].daily * Cardinality(DaysOf(r))
                  /\ call[p].daily = vehicles'[r.vehicle_id].daily_rent_price ]_vars

\* a booking of two days or more is committed at the daily price times its days
C15_Witness ==
  \E p \in Procs :
    /\ Done(p, "create") /\ call[p].code = "ok"
    /\ \E r \in bookings :
         /\ r.id = call[p].booking.id
         /\ r.rent_end_date > r.rent_start_date
         /\ r.total_price = call[p].daily * (r.rent_end_date - r.rent_start_date + 1)

\* C16: the total price of a booking never changes: in every step, a booking
\* that is in the table before and after has the same total price, whether
\* the step is a cancel, a return, another createBooking or an updateVehicle
\* that changes the daily price.
C16_PriceNeverChanges ==
  [][ \A r \in bookings, t \in bookings' :
        r.id = t.id => t.total_price = r.total_price ]_vars

\* the daily price of a vehicle was changed after a booking of it was
\* priced, and that booking has since been cancelled or returned
C16_Witness ==
  \E r \in bookings :
    /\ vehicles[r.vehicle_id].exists
    /\ r.status \in Terminal
    /\ r.total_price # vehicles[r.vehicle_id].daily_rent_price * Cardinality(DaysOf(r))
    /\ r.total_price > 0

\* C17: a vehicle is deleted only when no active booking refers to it:
\* deleteVehicle is answered with the active-bookings error and deletes
\* nothing when its count finds one, and no step removes a vehicle while a
\* committed active booking refers to it.
C17_DeleteOnlyWithoutActive ==
  [][ /\ \A v \in VehicleIds :
           (vehicles[v].exists /\ ~ vehicles'[v].exists) => ActiveOn(v) = {}
      /\ \A p \in Procs :
           (pc[p] = "dv_count" /\ pc'[p] # "dv_count" /\ ActiveOn(call[p].vehicle_id) # {})
             => /\ pc'[p] = "idle"
                /\ call'[p].code \in {"ActiveBookings", "Internal"}
                /\ vehicles' = vehicles /\ bookings' = bookings ]_vars

\* C18: updateBooking with a status other than 'cancelled' and 'returned',
\* 'active' included, ends in the step that receives it: it is never
\* answered "ok", on a booking that exists it is answered "unsupported status
\* update", and bookings, vehicles, locks and pending writes are unchanged.
C18_OtherStatusUnsupported ==
  [][ \A p \in Procs :
        (Starts(p) /\ call'[p].op = "update" /\ call'[p].status \notin {"cancelled", "returned"})
          => /\ pc'[p] = "idle"
             /\ call'[p].code # "ok"
             /\ call'[p].booking.id # 0 => call'[p].code = "UnsupportedStatus"
             /\ bookings' = bookings /\ vehicles' = vehicles
             /\ vlock' = vlock /\ block' = block /\ tx' = tx ]_vars

\* the admin asked for status 'active' on an existing booking and was
\* answered "unsupported status update"
C18_Witness ==
  \E p \in Procs :
    /\ Done(p, "update") /\ call[p].status = "active"
    /\ call[p].actor.role = "admin"
    /\ call[p].booking.id # 0
    /\ call[p].code = "UnsupportedStatus"

\* C19: a vehicle has at most one active booking at any time.
C19_SingleActivePerVehicle ==
  \A v \in VehicleIds : Cardinality(ActiveOn(v)) <= 1

\* C20: a return by the admin of a booking that exists gets past the checks
\* whatever the clock says, before, on or after the days of the booking; its
\* COMMIT, the booking being still in the table when the return writes it,
\* leaves the booking returned and the vehicle available.
C20_AdminReturnUngated ==
  [][ \A p \in Procs :
        /\ (Starts(p) /\ call'[p].op = "update" /\ call'[p].status = "returned"
              /\ call'[p].actor.role = "admin" /\ call'[p].booking.id # 0)
             => pc'[p] = "ub_booking"
        /\ (pc[p] = "ub_commit" /\ pc'[p] = "ub_reread" /\ call[p].status = "returned"
              /\ tx[p].bstatus # <<>>)
             => /\ \E r \in bookings' : r.id = call[p].bookingId /\ r.status = "returned"
                /\ vehicles'[call[p].booking.vehicle_id].availability_status = "available" ]_vars

\* the admin returned an active booking whose first day had come, and the
\* answer shows it returned with its vehicle available
C20_Witness ==
  \E p \in Procs :
    /\ Done(p, "update") /\ call[p].status = "returned" /\ call[p].code = "ok"
    /\ call[p].actor.role = "admin"
    /\ call[p].booking.status = "returned"
    /\ toDate(call[p].booking.rent_start_date) <= 3
    /\ vehicles[call[p].booking.vehicle_id].availability_status = "available"

\* C21: no two calls wait for each other's row locks: in no reachable state
\* is every one of two calls stopped at a statement that needs a row lock the
\* other holds.
\* the row locks the next statement of p needs and another call holds
WaitsFor(p, q) ==
  /\ p # q
  /\ \/ /\ pc[p] \in {"cb_lock", "cb_update", "dv_delete"}
        /\ vehicles[call[p].vehicle_id].exists
        /\ vlock[call[p].vehicle_id] = q
     \/ /\ pc[p] = "ub_booking"
        /\ BookingRows(bookings, call[p].bookingId) # {}
        /\ block[call[p].bookingId] = q
     \/ /\ pc[p] = "ub_vehicle"
        /\ vehicles[call[p].booking.vehicle_id].exists
        /\ vlock[call[p].booking.vehicle_id] = q
     \/ /\ pc[p] = "dv_cascade"
        /\ vlock[call[p].vehicle_id] = p
        /\ \E r \in bookings : r.vehicle_id = call[p].vehicle_id /\ block[r.id] = q

C21_NoLockCycle ==
  \A p \in Procs, q \in Procs : ~ (WaitsFor(p, q) /\ WaitsFor(q, p))

\* C22: a cancel or return that reports a failure has not been applied: in
\* the step that ends an updateBooking with an answer other than "ok", the
\* booking, if it is in the table, has the status it was fetched with.
C22_FailedUpdateNotApplied ==
  [][ \A p \in Procs :
        (call[p].op = "update" /\ pc[p] # "idle" /\ pc'[p] = "idle" /\ call'[p].code # "ok")
          => \A r \in bookings' :
               r.id = call[p].bookingId => r.status = call[p].booking.status ]_vars

\* C26: the pool is never exhausted by calls that wait for it: in no
\* reachable state is every pooled connection held by a call whose next
\* statement needs another pooled connection.
C26_PoolNotHeldByWaiters ==
  ~ /\ ClientsHeld(pc) = PoolSize
    /\ \A p \in Procs : pc[p] \in ClientStates => pc[p] = "ub_reread"

C24_NoCreateBetweenWrites ==
  [][ \A p \in Procs, q \in Procs :
        ~ /\ pc[p] = "ub_vehicle" /\ tx[p].bstatus # <<>>
          /\ call[q].op = "create"
          /\ call[q].vehicle_id = call[p].booking.vehicle_id
          /\ pc[q] \in {"cb_overlap", "cb_commit"}
          /\ pc'[q] # pc[q] /\ call'[q].code # "Internal" ]_vars

\* C25: a booking is never active again: every booking enters the table
\* with status 'active', and a booking whose status is not 'active' does not
\* have status 'active' after any step.
C25_NeverActiveAgain ==
  [][ /\ \A r \in bookings, t \in bookings' :
           (r.id = t.id /\ r.status # "active") => t.status # "active"
      /\ \A t \in bookings' :
           (\A r \in bookings : r.id # t.id) => t.status = "active" ]_vars

\* an updateBooking to 'active' on a cancelled or returned booking was
\* refused and the booking is as it was
C25_Witness ==
  \E p \in Procs :
    /\ Done(p, "update") /\ call[p].status = "active"
    /\ call[p].code = "UnsupportedStatus"
    /\ call[p].booking.status \in Terminal
    /\ call[p].booking \in bookings

====
